---- MODULE Spec2Model ----
(***************************************************************************)
(* Model of langserv/langserv.py: the LangServ connection, the             *)
(* LangServPool and the frame parser (util.Parser) that LangServ feeds.    *)
(* Bytes are one-character strings; byte strings are sequences of them.    *)
(***************************************************************************)
EXTENDS Integers, Sequences, FiniteSets, TLC

\* ------------------------------------------------------------------ bounds
MaxConns == 2
MaxSendBuf == 2
MaxQueued == 4

\* ------------------------------------------------------------ byte strings
CR == "\r"
LF == "\n"
CRLF == <<CR, LF>>
ContentLength == <<"C","o","n","t","e","n","t","-","L","e","n","g","t","h">>
DigitChars == <<"0","1","2","3","4","5","6","7","8","9">>

IsDigit(ch) == \E i \in 1..10 : DigitChars[i] = ch
DigitVal(ch) == (CHOOSE i \in 1..10 : DigitChars[i] = ch) - 1
IsSpace(ch) == ch \in {" ", "\t", CR, LF}

Drop(s, n) == SubSeq(s, n + 1, Len(s))
Take(s, n) == SubSeq(s, 1, n)

\* int(value): decimal ASCII to integer; -1 stands for ValueError
RECURSIVE ToInt(_, _)
ToInt(s, acc) ==
    IF s = <<>> THEN acc
    ELSE IF ~IsDigit(Head(s)) THEN -1
    ELSE ToInt(Tail(s), acc * 10 + DigitVal(Head(s)))
ParseInt(s) == IF s = <<>> THEN -1 ELSE ToInt(s, 0)

\* str(n).encode(): integer to decimal ASCII
RECURSIVE Dec(_)
Dec(n) == IF n < 10 THEN <<DigitChars[n + 1]>>
          ELSE Dec(n \div 10) \o <<DigitChars[(n % 10) + 1]>>

RECURSIVE LStrip(_)
LStrip(s) == IF s # <<>> /\ IsSpace(Head(s)) THEN LStrip(Tail(s)) ELSE s
RECURSIVE RStrip(_)
RStrip(s) == IF s # <<>> /\ IsSpace(s[Len(s)]) THEN RStrip(Take(s, Len(s) - 1)) ELSE s
Strip(s) == RStrip(LStrip(s))

\* index of the first occurrence of ch in s, 0 when absent
IndexOf(s, ch) ==
    IF \E i \in 1..Len(s) : s[i] = ch
    THEN CHOOSE i \in 1..Len(s) : s[i] = ch /\ \A j \in 1..(i - 1) : s[j] # ch
    ELSE 0

\* ------------------------------------------------------------ frame parser
\* length of the line terminator that starts at index i of s (0: none)
EolLen(s, i) ==
    IF i > Len(s) THEN 0
    ELSE IF s[i] = LF THEN 1
    ELSE IF s[i] = CR /\ i + 1 <= Len(s) /\ s[i + 1] = LF THEN 2
    ELSE 0

\* a header terminator (two sequential line terminators) starts at index i
TermAt(s, i) == EolLen(s, i) > 0 /\ EolLen(s, i + EolLen(s, i)) > 0
TermLen(s, i) == EolLen(s, i) + EolLen(s, i + EolLen(s, i))

\* index of the first header terminator in s, 0 when there is none
FindTerm(s) ==
    IF \E i \in 1..Len(s) : TermAt(s, i)
    THEN CHOOSE i \in 1..Len(s) : TermAt(s, i) /\ \A j \in 1..(i - 1) : ~TermAt(s, j)
    ELSE 0

\* split a header block into lines on line terminators
RECURSIVE SplitLines(_)
SplitAt(s, i) ==
    IF i = 0 THEN <<s>> ELSE <<Take(s, i - 1)>> \o SplitLines(Drop(s, i))
SplitLines(s) == SplitAt(s, IndexOf(s, LF))

\* one header line split on the first colon, both sides trimmed
LineOk(line) == IndexOf(line, ":") > 0
LineName(line) == Strip(Take(line, IndexOf(line, ":") - 1))
LineValue(line) == Strip(Drop(line, IndexOf(line, ":")))

\* the header set of a header block: name -> value, later lines win
HeaderLines(block) == SplitLines(block)
LinesOk(lines) == \A i \in 1..Len(lines) : LineOk(lines[i])
HeadersOk(block) == LinesOk(HeaderLines(block))
LastLine(lines, n) ==
    CHOOSE i \in 1..Len(lines) :
        /\ LineName(lines[i]) = n
        /\ \A j \in (i + 1)..Len(lines) : LineName(lines[j]) # n
HeadersOf(lines) ==
    [n \in {LineName(lines[i]) : i \in 1..Len(lines)} |-> LineValue(lines[LastLine(lines, n)])]
ParseHeaders(block) == HeadersOf(HeaderLines(block))

\* the body length a header set declares, -1 when missing or not numeric
DeclaredLength(headers) ==
    IF ContentLength \in DOMAIN headers THEN ParseInt(headers[ContentLength]) ELSE -1

NoHeaders == [n \in {} |-> <<>>]
NewParser == [state |-> "HEADER", acc |-> <<>>, need |-> 0,
              head |-> <<>>, headers |-> NoHeaders]

\* json.loads(body) succeeds: over the model's bytes the JSON texts are the
\* decimal numbers (no leading zero); the empty body is not a JSON text
JsonValid(body) ==
    /\ body # <<>>
    /\ \A i \in 1..Len(body) : IsDigit(body[i])
    /\ (Len(body) > 1 => body[1] # "0")

\* handle_complete_msg(content, body, headers) returns without raising
handle_complete_msg(frame) == JsonValid(frame.body)

\* one frame: the raw content, the body and the header set
EmitFrame(p) ==
    [content |-> p.head \o Take(p.acc, p.need),
     body |-> Take(p.acc, p.need),
     headers |-> p.headers]

\* the scan loop of feed(): r = [p: parser, out: frames emitted, failed: framing failure]
RECURSIVE ScanLoop(_)

\* BODY(n) with the body buffered: emit the frame and keep the remainder
ScanEmit(r) ==
    [r EXCEPT !.out = Append(r.out, EmitFrame(r.p)),
              !.p = [NewParser EXCEPT !.acc = Drop(r.p.acc, r.p.need)]]

\* HEADER with a parsed header block: go to BODY(n), or fail the connection
ScanLength(r, headers, used) ==
    IF DeclaredLength(headers) < 0 THEN [r EXCEPT !.failed = TRUE]
    ELSE ScanLoop([r EXCEPT !.p = [state |-> "BODY",
                                   acc |-> Drop(r.p.acc, used),
                                   need |-> DeclaredLength(headers),
                                   head |-> Take(r.p.acc, used),
                                   headers |-> headers]])

\* HEADER with the terminator found: block is the header block, used the
\* length of block and terminator
ScanBlock(r, block, used) ==
    IF ~HeadersOk(block) THEN [r EXCEPT !.failed = TRUE]
    ELSE ScanLength(r, ParseHeaders(block), used)

\* HEADER: i is the index of the first terminator in the accumulator
ScanHeader(r, i) ==
    IF i = 0 THEN r
    ELSE ScanBlock(r, Take(r.p.acc, i - 1), i - 1 + TermLen(r.p.acc, i))

\* ScanLoop that returns after the first frame it completes instead of
\* scanning the remainder
ScanLoop_OneFrame(r) ==
    IF r.p.state = "HEADER" THEN ScanHeader(r, FindTerm(r.p.acc))
    ELSE IF Len(r.p.acc) >= r.p.need THEN ScanEmit(r)
    ELSE r

\* ScanLoop that waits for more bytes than the body needs
ScanLoop_StrictBody(r) ==
    IF r.p.state = "HEADER" THEN ScanHeader(r, FindTerm(r.p.acc))
    ELSE IF Len(r.p.acc) > r.p.need THEN ScanLoop(ScanEmit(r))
    ELSE r

\* ScanLoop that a failure of the frame handler ends: the rest of the
\* accumulator stays unscanned
ScanLoop_HandlerAborts(r) ==
    IF r.p.state = "HEADER" THEN ScanHeader(r, FindTerm(r.p.acc))
    ELSE IF Len(r.p.acc) < r.p.need THEN r
    ELSE IF handle_complete_msg(EmitFrame(r.p)) THEN ScanLoop(ScanEmit(r))
    ELSE ScanEmit(r)

ScanLoop(r) ==
    IF r.p.state = "HEADER" THEN ScanHeader(r, FindTerm(r.p.acc))
    ELSE IF Len(r.p.acc) >= r.p.need THEN ScanLoop(ScanEmit(r))
    ELSE r

\* feed() that replaces the accumulator by the new bytes
Feed_Overwrite(p, data) ==
    ScanLoop([p |-> [p EXCEPT !.acc = data], out |-> <<>>, failed |-> FALSE])

\* Parser.feed(data)
Feed(p, data) ==
    ScanLoop([p |-> [p EXCEPT !.acc = p.acc \o data], out |-> <<>>, failed |-> FALSE])


\* ------------------------------------------------------- peers on the wire
\* a frame as the peer writes it: header lines, line terminator, body
Hdr(name, value) == <<name, value>>
Frame(hdr, eol, body) == [hdr |-> hdr, eol |-> eol, body |-> body]

RECURSIVE EncodeLines(_, _)
EncodeLines(hdr, eol) ==
    IF hdr = <<>> THEN <<>>
    ELSE Head(hdr)[1] \o <<":", " ">> \o Head(hdr)[2] \o eol \o EncodeLines(Tail(hdr), eol)
Encode(f) == EncodeLines(f.hdr, f.eol) \o f.eol \o f.body

\* what the peer meant by a frame: the decoded frame a correct reader gets
Meaning(f) ==
    [content |-> Encode(f),
     body |-> f.body,
     headers |-> [n \in {f.hdr[i][1] : i \in 1..Len(f.hdr)} |->
                    f.hdr[CHOOSE i \in 1..Len(f.hdr) : f.hdr[i][1] = n][2]]]

\* header block with a numeric Content-Length equal to the body's length
ValidFrame(f) ==
    /\ \A i, j \in 1..Len(f.hdr) : f.hdr[i][1] = f.hdr[j][1] => i = j
    /\ \E i \in 1..Len(f.hdr) :
          f.hdr[i][1] = ContentLength /\ f.hdr[i][2] = Dec(Len(f.body))

XName == <<"X">>
\* the scripts a peer may play: the frames it writes before it closes
Scripts == <<
    <<>>,
    <<Frame(<<Hdr(XName, <<"a">>)>>, <<LF>>, <<>>)>>,
    <<Frame(<<Hdr(ContentLength, <<"x">>)>>, <<LF>>, <<>>)>>,
    <<Frame(<<Hdr(ContentLength, <<"1">>)>>, <<LF>>, <<"x">>)>>,
    <<Frame(<<Hdr(ContentLength, <<"2">>)>>, CRLF, <<"1", "2">>)>>,
    <<Frame(<<Hdr(XName, <<"a", ":", "b">>), Hdr(ContentLength, <<"1">>)>>, <<LF>>, <<"7">>)>>,
    <<Frame(<<Hdr(ContentLength, <<"1">>)>>, <<LF>>, <<"7">>),
      Frame(<<Hdr(ContentLength, <<"0">>)>>, <<LF>>, <<>>)>>,
    <<Frame(<<Hdr(ContentLength, <<"1">>)>>, <<LF>>, <<"x">>),
      Frame(<<Hdr(ContentLength, <<"1">>)>>, <<LF>>, <<"7">>)>>
>>
ScriptIds == 1..Len(Scripts)
\* the scripts the peers of a pool with several connections play
PoolScripts == {1, 2, 4}

RECURSIVE EncodeAll(_)
EncodeAll(fs) == IF fs = <<>> THEN <<>> ELSE Encode(Head(fs)) \o EncodeAll(Tail(fs))
Wire(s) == EncodeAll(Scripts[s])
ValidScript(s) == \A i \in 1..Len(Scripts[s]) : ValidFrame(Scripts[s][i])


\* ------------------------------------------------------------------- state
Listener == 0
ConnIds == 1..MaxConns
Handles == {Listener} \cup ConnIds

EVENT_READ == {"R"}
EVENT_WRITE == {"W"}
Raising == {"framing", "BlockingIOError", "KeyError", "OSError"}
OutMsgs == {<<>>, <<"a", "b">>}
\* the messages queued on the connection whose outbound bytes are recorded
SendMsgs == OutMsgs \cup {<<"c">>}

VARIABLES
    pool,       \* "new" (constructed), "running" (after startup), "down" (after shutdown)
    lang_servs, \* keys of LangServPool.lang_servs
    ls,         \* the LangServ of each connection: closed, send_buf, parser
    nconn,      \* number of connections accepted so far
    registry,   \* the Registrar: registered handle -> interest mask
    calls,      \* per handle: unregister calls, socket close calls, close() calls
    net,        \* per connection: the peer's script, bytes received, feeds, cut kinds,
                \* and, where recorded, the bytes queued and the bytes the socket accepted
    pending,    \* peers waiting in the listener's backlog
    emitted,    \* per connection: frames handed to the frame handler, in order
    last,       \* the last operation: op, handle, result tags, event mask, calls in order
    shutdown_log \* Registrar/socket calls made by shutdown(), in order

vars == <<pool, lang_servs, ls, nconn, registry, calls, net, pending, emitted, last, shutdown_log>>

NewLangServ == [closed |-> FALSE, send_buf |-> <<>>, parser |-> NewParser]
\* calls.close counts 0, 1, 2 for none, one, several; calls.direct is 1 once
\* close() was called from outside the pool's operations; calls.late is 1
\* once recv, send, register or modify was called on the closed socket
NoCalls == [unregister |-> 0, sockclose |-> 0, close |-> 0, direct |-> 0, late |-> 0]
NoNet == [script |-> 1, rpos |-> 0, feeds |-> 0, cuts |-> {},
          track |-> FALSE, queued |-> <<>>, sent |-> <<>>]
Op(op, h, res) == [op |-> op, h |-> h, res |-> res, mask |-> {}, io |-> <<>>]
\* the connections accepted so far
Created == 1..nconn

\* the part of the state the methods of LangServ and LangServPool act on
World == [ls |-> ls, registry |-> registry, calls |-> calls, net |-> net,
          emitted |-> emitted, lang_servs |-> lang_servs, log |-> <<>>]

\* ------------------------------------------------------------- Registrar
ctx_register(reg, h, mask) == [x \in DOMAIN reg \cup {h} |-> IF x = h THEN mask ELSE reg[x]]
ctx_modify(reg, h, mask) == [reg EXCEPT ![h] = mask]
ctx_unregister(reg, h) == [x \in DOMAIN reg \ {h} |-> reg[x]]

\* --------------------------------------------------------------- LangServ
\* _event_mask() that always asks for WRITE
event_mask_AlwaysWrite(send_buf) == EVENT_READ \cup EVENT_WRITE

event_mask(send_buf) ==
    IF send_buf # <<>> THEN EVENT_READ \cup EVENT_WRITE ELSE EVENT_READ

\* LangServ.__init__(conn, ctx) for the connection with handle c playing script s
LangServInit(W, c, s) ==
    [W EXCEPT !.ls[c] = NewLangServ,
              !.registry = ctx_register(@, c, event_mask(NewLangServ.send_buf)),
              !.net[c] = [NoNet EXCEPT !.script = s],
              !.emitted[c] = <<>>]

\* close() without the closed check
close_NoGuard(W, c) ==
    [W EXCEPT !.calls[c].close = IF @ < 2 THEN @ + 1 ELSE @,
              !.ls[c].closed = TRUE,
              !.registry = ctx_unregister(@, c),
              !.calls[c].unregister = @ + 1,
              !.calls[c].sockclose = @ + 1,
              !.log = @ \o << <<"unregister", c>>, <<"close", c>> >>]

\* close() that unregisters every handle of the Registrar
close_UnregistersAll(W, c) ==
    LET W1 == [W EXCEPT !.calls[c].close = IF @ < 2 THEN @ + 1 ELSE @]
    IN IF ~W.ls[c].closed
       THEN [W1 EXCEPT !.ls[c].closed = TRUE,
                       !.registry = [h \in {} |-> {}],
                       !.calls[c].unregister = @ + 1,
                       !.calls[c].sockclose = @ + 1,
                       !.log = @ \o << <<"unregister", c>>, <<"close", c>> >>]
       ELSE W1

\* close() that leaves the handle registered
close_KeepsRegistered(W, c) ==
    LET W1 == [W EXCEPT !.calls[c].close = IF @ < 2 THEN @ + 1 ELSE @]
    IN IF ~W.ls[c].closed
       THEN [W1 EXCEPT !.ls[c].closed = TRUE,
                       !.calls[c].sockclose = @ + 1,
                       !.log = @ \o << <<"close", c>> >>]
       ELSE W1

\* LangServ.close()
close(W, c) ==
    LET W1 == [W EXCEPT !.calls[c].close = IF @ < 2 THEN @ + 1 ELSE @]
    IN IF ~W.ls[c].closed
       THEN [W1 EXCEPT !.ls[c].closed = TRUE,
                       !.registry = ctx_unregister(@, c),
                       !.calls[c].unregister = @ + 1,
                       !.calls[c].sockclose = @ + 1,
                       !.log = @ \o << <<"unregister", c>>, <<"close", c>> >>]
       ELSE W1

\* which part of a frame a cut after the bytes fed so far falls in
CutKind(p) ==
    IF p.state = "HEADER" /\ p.acc # <<>> /\ Len(p.acc) < Len(ContentLength)
       /\ p.acc = Take(ContentLength, Len(p.acc)) THEN {"name"}
    ELSE IF p.state = "HEADER" /\ p.acc # <<>> /\ p.acc[Len(p.acc)] \in {CR, LF} THEN {"terminator"}
    ELSE IF p.state = "BODY" /\ p.acc # <<>> /\ Len(p.acc) < p.need THEN {"body"}
    ELSE {}

\* the frames a feed emits reach the frame handler, which may fail to decode
DecodeTags(out) ==
    IF \E i \in 1..Len(out) : ~handle_complete_msg(out[i]) THEN {"decode"} ELSE {}

\* the state of connection c after n received bytes went through a feed
\* that returned r
Fed(W, c, n, r) ==
    [W EXCEPT !.ls[c].parser = r.p,
              !.emitted[c] = @ \o r.out,
              !.net[c].rpos = @ + n,
              !.net[c].feeds = IF @ < 2 THEN @ + 1 ELSE @,
              !.net[c].cuts = @ \cup CutKind(r.p)]

\* self.parser.feed(msg): a framing failure raises out of event()
FeedResult(W, c, n, r) ==
    [W |-> Fed(W, c, n, r),
     res |-> DecodeTags(r.out) \cup (IF r.failed THEN {"framing"} ELSE {"data"}),
     done |-> r.failed, io |-> <<"recv", "feed">>]

\* recv or send on the socket of a closed LangServ raises OSError
ClosedSocket(W, c, call) ==
    [W |-> [W EXCEPT !.calls[c].late = 1], res |-> {"OSError"}, done |-> TRUE,
     io |-> <<call>>]

\* the read half with a parser made anew for every event
EventRead_FreshParser(W, c, rcv) ==
    IF W.ls[c].closed THEN ClosedSocket(W, c, "recv")
    ELSE IF rcv.kind = "block"
    THEN [W |-> W, res |-> {"BlockingIOError"}, done |-> TRUE, io |-> <<"recv">>]
    ELSE IF rcv.data = <<>>
    THEN [W |-> close(W, c), res |-> {"eof"}, done |-> TRUE, io |-> <<"recv", "close">>]
    ELSE FeedResult(W, c, Len(rcv.data), Feed(NewParser, rcv.data))

\* the read half that returns on an empty recv without closing
EventRead_EofIgnored(W, c, rcv) ==
    IF W.ls[c].closed THEN ClosedSocket(W, c, "recv")
    ELSE IF rcv.kind = "block"
    THEN [W |-> W, res |-> {"BlockingIOError"}, done |-> TRUE, io |-> <<"recv">>]
    ELSE IF rcv.data = <<>>
    THEN [W |-> W, res |-> {"eof"}, done |-> TRUE, io |-> <<"recv">>]
    ELSE FeedResult(W, c, Len(rcv.data), Feed(W.ls[c].parser, rcv.data))

\* the read half of LangServ.event: rcv is what conn.recv(4096) does
\* result: [W, res, done] with done = the method has returned or raised
EventRead(W, c, rcv) ==
    IF W.ls[c].closed THEN ClosedSocket(W, c, "recv")
    ELSE IF rcv.kind = "block"
    THEN [W |-> W, res |-> {"BlockingIOError"}, done |-> TRUE, io |-> <<"recv">>]
    ELSE IF rcv.data = <<>>
    THEN [W |-> close(W, c), res |-> {"eof"}, done |-> TRUE, io |-> <<"recv", "close">>]
    ELSE FeedResult(W, c, Len(rcv.data), Feed(W.ls[c].parser, rcv.data))

\* the socket of connection c accepted the first n bytes of send_buf
Accepted(W, c, n) ==
    [W EXCEPT !.net[c].sent = IF W.net[c].track THEN @ \o Take(W.ls[c].send_buf, n) ELSE @]

\* the write half that computes the mask before it drops the sent prefix
EventWrite_StaleMask(W, c, snd) ==
    IF W.ls[c].closed THEN ClosedSocket(W, c, "send")
    ELSE IF snd.kind = "block"
    THEN [W |-> W, res |-> {"BlockingIOError"}, done |-> TRUE, io |-> <<"send">>]
    ELSE IF snd.written = 0
    THEN [W |-> close(W, c), res |-> {"send0"}, done |-> TRUE, io |-> <<"send", "close">>]
    ELSE [W |-> [Accepted(W, c, snd.written)
                    EXCEPT !.ls[c].send_buf = Drop(@, snd.written),
                           !.registry = ctx_modify(@, c, event_mask(W.ls[c].send_buf))],
          res |-> {"sent"}, done |-> TRUE, io |-> <<"send", "modify">>]

\* the write half that empties the buffer whatever the socket accepted
EventWrite_ClearsBuffer(W, c, snd) ==
    IF W.ls[c].closed THEN ClosedSocket(W, c, "send")
    ELSE IF snd.kind = "block"
    THEN [W |-> W, res |-> {"BlockingIOError"}, done |-> TRUE, io |-> <<"send">>]
    ELSE IF snd.written = 0
    THEN [W |-> close(W, c), res |-> {"send0"}, done |-> TRUE, io |-> <<"send", "close">>]
    ELSE [W |-> [Accepted(W, c, snd.written)
                    EXCEPT !.ls[c].send_buf = <<>>,
                           !.registry = ctx_modify(@, c, event_mask(<<>>))],
          res |-> {"sent"}, done |-> TRUE, io |-> <<"send", "modify">>]

\* the write half of LangServ.event: snd is what conn.send(send_buf) does
EventWrite(W, c, snd) ==
    IF W.ls[c].closed THEN ClosedSocket(W, c, "send")
    ELSE IF snd.kind = "block"
    THEN [W |-> W, res |-> {"BlockingIOError"}, done |-> TRUE, io |-> <<"send">>]
    ELSE IF snd.written = 0
    THEN [W |-> close(W, c), res |-> {"send0"}, done |-> TRUE, io |-> <<"send", "close">>]
    ELSE [W |-> [Accepted(W, c, snd.written)
                    EXCEPT !.ls[c].send_buf = Drop(@, snd.written),
                           !.registry = ctx_modify(@, c, event_mask(Drop(W.ls[c].send_buf, snd.written)))],
          res |-> {"sent"}, done |-> TRUE, io |-> <<"send", "modify">>]

\* the write half after the read half rd even when that returned or raised
AfterRead_NoReturn(rd, c, mask, snd) ==
    IF mask \cap EVENT_WRITE = {} THEN rd
    ELSE [EventWrite(rd.W, c, snd) EXCEPT !.res = rd.res \cup @, !.io = rd.io \o @]

\* the write half after the read half rd, unless that returned or raised
AfterRead(rd, c, mask, snd) ==
    IF rd.done \/ mask \cap EVENT_WRITE = {} THEN rd
    ELSE [EventWrite(rd.W, c, snd) EXCEPT !.res = rd.res \cup @, !.io = rd.io \o @]

\* LangServ.event(key, mask)
event(W, c, mask, rcv, snd) ==
    AfterRead(IF mask \cap EVENT_READ # {} THEN EventRead(W, c, rcv)
              ELSE [W |-> W, res |-> {}, done |-> FALSE, io |-> <<>>],
              c, mask, snd)

\* msg was passed to queue_send of connection c
Queued(W, c, msg) ==
    [W EXCEPT !.net[c].queued = IF W.net[c].track THEN @ \o msg ELSE @]

\* LangServ.queue_send(msg); modify of an unregistered handle raises KeyError
queue_send(W, c, msg) ==
    IF c \in DOMAIN W.registry
    THEN [W |-> [Queued(W, c, msg)
                    EXCEPT !.ls[c].send_buf = @ \o msg,
                           !.registry = ctx_modify(@, c, event_mask(W.ls[c].send_buf \o msg))],
          res |-> {}]
    ELSE [W |-> [Queued(W, c, msg)
                    EXCEPT !.ls[c].send_buf = @ \o msg,
                           !.calls[c].late = IF W.ls[c].closed THEN 1 ELSE @],
          res |-> {"KeyError"}]


\* ----------------------------------------------------------- LangServPool
\* LangServPool.handle_conn(): accept() raises BlockingIOError on an empty backlog
handle_conn(W, npending, c, s) ==
    IF npending = 0 THEN [W |-> W, res |-> {"BlockingIOError"}]
    ELSE [W |-> [LangServInit(W, c, s) EXCEPT !.lang_servs = @ \cup {c}],
          res |-> {"accepted"}]

\* the else branch that never removes an entry of the mapping
pool_event_NoReap(W, c, mask, rcv, snd) ==
    IF c \notin W.lang_servs THEN [W |-> W, res |-> {"KeyError"}, io |-> <<>>]
    ELSE [W |-> event(W, c, mask, rcv, snd).W, res |-> event(W, c, mask, rcv, snd).res,
          io |-> event(W, c, mask, rcv, snd).io]

\* after ls.event(key, mask) gave r: an error propagates, else a closed
\* LangServ is deleted from the mapping
Reap(r, c) ==
    IF r.res \cap Raising # {} THEN [W |-> r.W, res |-> r.res, io |-> r.io]
    ELSE IF r.W.ls[c].closed
         THEN [W |-> [r.W EXCEPT !.lang_servs = @ \ {c}], res |-> r.res, io |-> r.io]
         ELSE [W |-> r.W, res |-> r.res, io |-> r.io]

\* the else branch of LangServPool.event(key, mask) for the handle c
pool_event(W, c, mask, rcv, snd) ==
    IF c \notin W.lang_servs THEN [W |-> W, res |-> {"KeyError"}, io |-> <<>>]
    ELSE Reap(event(W, c, mask, rcv, snd), c)

\* the loop of shutdown() over lang_servs.values(), in insertion order
RECURSIVE CloseAll(_, _)
CloseAll(W, cs) ==
    IF cs = {} THEN W
    ELSE LET c == CHOOSE x \in cs : \A y \in cs : x <= y
         IN CloseAll(close(W, c), cs \ {c})

\* shutdown() that releases the listener and leaves the connections open
shutdown_ListenerOnly(W) ==
    [W EXCEPT !.registry = ctx_unregister(@, Listener),
              !.calls[Listener].unregister = @ + 1,
              !.calls[Listener].sockclose = @ + 1,
              !.log = @ \o << <<"unregister", Listener>>, <<"close", Listener>> >>]

\* LangServPool.shutdown()
shutdown(W) ==
    LET W1 == [W EXCEPT !.registry = ctx_unregister(@, Listener),
                        !.calls[Listener].unregister = @ + 1,
                        !.calls[Listener].sockclose = @ + 1,
                        !.log = @ \o << <<"unregister", Listener>>, <<"close", Listener>> >>]
    IN CloseAll(W1, W1.lang_servs)

\* ------------------------------------------------------------ transitions
Init ==
    /\ pool = "new"
    /\ lang_servs = {}
    /\ ls = [c \in ConnIds |-> NewLangServ]
    /\ nconn = 0
    /\ registry = [h \in {} |-> {}]
    /\ calls = [h \in Handles |-> NoCalls]
    /\ net = [c \in ConnIds |-> NoNet]
    /\ pending = 0
    /\ emitted = [c \in ConnIds |-> <<>>]
    /\ last = Op("none", Listener, {})
    /\ shutdown_log = <<>>

\* the world after an operation
Becomes(W) ==
    /\ ls' = W.ls
    /\ registry' = W.registry
    /\ calls' = W.calls
    /\ net' = W.net
    /\ emitted' = W.emitted
    /\ lang_servs' = W.lang_servs

\* operation op on handle h gave r = [W, res]
Done(op, h, r) == Becomes(r.W) /\ last' = Op(op, h, r.res)

\* the event (h, mask) was dispatched and gave r = [W, res, io]
Dispatched(op, h, mask, r) ==
    Becomes(r.W) /\ last' = [Op(op, h, r.res) EXCEPT !.mask = mask, !.io = r.io]

\* LangServPool.startup(ctx)
Startup ==
    /\ pool = "new"
    /\ pool' = "running"
    /\ registry' = ctx_register(registry, Listener, EVENT_READ)
    /\ last' = Op("startup", Listener, {})
    /\ UNCHANGED <<lang_servs, ls, nconn, calls, net, pending, emitted, shutdown_log>>

\* a peer connects to the listening socket
PeerConnect ==
    /\ pool # "down"
    /\ nconn + pending < MaxConns
    /\ pending' = pending + 1
    /\ last' = Op("connect", Listener, {})
    /\ UNCHANGED <<pool, lang_servs, ls, nconn, registry, calls, net, emitted, shutdown_log>>

\* LangServPool.event(key, mask) with key.fileobj the listener
ListenerEvent ==
    /\ Listener \in DOMAIN registry
    /\ \E s \in PoolScripts : Done("accept", Listener, handle_conn(World, pending, nconn + 1, s))
    /\ nconn' = IF pending = 0 THEN nconn ELSE nconn + 1
    /\ pending' = IF pending = 0 THEN 0 ELSE pending - 1
    /\ UNCHANGED <<pool, shutdown_log>>

\* the positions of the wire w at which one of the peer's writes ends: a
\* peer writes the header lines, the blank line and the body of each frame
RECURSIVE WriteEnds(_, _)
WriteEnds(fs, base) ==
    IF fs = <<>> THEN {}
    ELSE LET f == Head(fs)
             a == base + Len(EncodeLines(f.hdr, f.eol))
             b == a + Len(f.eol)
             c == b + Len(f.body)
         IN {a, b, c} \cup WriteEnds(Tail(fs), c)

\* what conn.recv(4096) may do on the wire w read up to rpos: would block, or
\* return the next k bytes; the transport delivers up to positions in ends
RecvFrom(w, rpos, ends) ==
    {[kind |-> "block", data |-> <<>>]}
    \cup {[kind |-> "data", data |-> SubSeq(w, rpos + 1, rpos + k)] :
             k \in {j \in (IF Len(w) = rpos THEN 0 ELSE 1)..(Len(w) - rpos) :
                        j <= 4096 /\ rpos + j \in ends}}
RecvChoices(c, ends) == RecvFrom(Wire(net[c].script), net[c].rpos, ends)

\* the transport hands over whole writes of the peer
WholeWrites(c) == {0, net[c].rpos} \cup WriteEnds(Scripts[net[c].script], 0)
\* the transport chops the bytes anywhere
AnyBytes(c) == 0..Len(Wire(net[c].script))

\* what conn.send(send_buf) may do for connection c
SendChoices(c) ==
    {[kind |-> "block", written |-> 0]}
    \cup {[kind |-> "sent", written |-> k] : k \in 0..Len(ls[c].send_buf)}

NoRecv == [kind |-> "block", data |-> <<>>]
NoSend == [kind |-> "block", written |-> 0]

\* LangServPool.event(key, mask) with key.fileobj a connection the Registrar
\* watches for mask, while recv may do any of rcvs and send any of snds
DispatchMask(c, mask, rcvs, snds) ==
    /\ c \in DOMAIN registry
    /\ mask # {}
    /\ mask \subseteq registry[c]
    /\ \E rcv \in (IF "R" \in mask THEN rcvs ELSE {NoRecv}) :
       \E snd \in (IF "W" \in mask THEN snds ELSE {NoSend}) :
          Dispatched("event", c, mask, pool_event(World, c, mask, rcv, snd))
    /\ UNCHANGED <<pool, nconn, pending, shutdown_log>>

\* an event for any of the masks the Registrar may report
Dispatch(c, rcvs, snds) ==
    \E mask \in SUBSET (EVENT_READ \cup EVENT_WRITE) : DispatchMask(c, mask, rcvs, snds)

ConnEvent(c, ends) == Dispatch(c, RecvChoices(c, ends), SendChoices(c))

\* an event on a transport that is up and takes bytes: recv returns data and
\* send accepts at least one byte
DrainEvent(c) ==
    Dispatch(c, {r \in RecvChoices(c, AnyBytes(c)) : r.kind = "data" /\ r.data # <<>>},
                {x \in SendChoices(c) : x.written >= 1})

\* a write-ready event whose send accepts at least one byte
WriteReady(c) ==
    DispatchMask(c, EVENT_WRITE, {NoRecv}, {x \in SendChoices(c) : x.written >= 1})

\* LangServPool.event(key, mask) for a connection that was closed after the
\* Registrar had collected the event: the handle is no longer registered
StaleEvent(c) ==
    /\ c \in Created
    /\ c \notin DOMAIN registry
    /\ \E mask \in (SUBSET (EVENT_READ \cup EVENT_WRITE)) \ {{}} :
          Dispatched("stale", c, mask, pool_event(World, c, mask, NoRecv, NoSend))
    /\ UNCHANGED <<pool, nconn, pending, shutdown_log>>

\* LangServ.queue_send(msg) called from inside the event loop on a LangServ of
\* the mapping, with msg one of msgs
QueueSend(c, msgs) ==
    /\ c \in lang_servs
    /\ \E msg \in msgs :
        /\ Len(ls[c].send_buf) + Len(msg) <= MaxSendBuf
        /\ Len(net[c].queued) + Len(msg) <= MaxQueued
        /\ Done("queue_send", c, queue_send(World, c, msg))
    /\ UNCHANGED <<pool, nconn, pending, shutdown_log>>

\* LangServ.close() called directly on a LangServ of the mapping
CloseDirect(c) ==
    /\ c \in lang_servs
    /\ Becomes([close(World, c) EXCEPT !.calls[c].direct = 1])
    /\ last' = Op("close", c, {})
    /\ UNCHANGED <<pool, nconn, pending, shutdown_log>>

\* LangServPool.shutdown()
Shutdown ==
    /\ pool = "running"
    /\ pool' = "down"
    /\ Becomes(shutdown(World))
    /\ shutdown_log' = shutdown(World).log
    /\ last' = Op("shutdown", Listener, {})
    /\ UNCHANGED <<nconn, pending>>

Next ==
    \/ Startup
    \/ PeerConnect
    \/ ListenerEvent
    \/ \E c \in ConnIds : ConnEvent(c, WholeWrites(c))
    \/ \E c \in ConnIds : StaleEvent(c)
    \/ \E c \in ConnIds : QueueSend(c, OutMsgs)
    \/ \E c \in ConnIds : CloseDirect(c)
    \/ Shutdown

Spec == Init /\ [][Next]_vars

\* the world of a pool after startup()
Started ==
    [ls |-> [c \in ConnIds |-> NewLangServ],
     registry |-> ctx_register([h \in {} |-> {}], Listener, EVENT_READ),
     calls |-> [h \in Handles |-> NoCalls],
     net |-> [c \in ConnIds |-> NoNet],
     emitted |-> [c \in ConnIds |-> <<>>],
     lang_servs |-> {}, log |-> <<>>]

\* the variables hold the world W
Holds(W) ==
    /\ ls = W.ls
    /\ registry = W.registry
    /\ calls = W.calls
    /\ net = W.net
    /\ emitted = W.emitted
    /\ lang_servs = W.lang_servs

\* one connection on a transport that chops the bytes anywhere: the pool
\* after startup() and one accepted peer, which plays any of the scripts
ConnInit ==
    /\ pool = "running"
    /\ nconn = 1
    /\ pending = 0
    /\ shutdown_log = <<>>
    /\ last = Op("accept", Listener, {"accepted"})
    /\ \E s \in ScriptIds : Holds(handle_conn(Started, 1, 1, s).W)

ConnNext ==
    \/ ConnEvent(1, AnyBytes(1))
    \/ StaleEvent(1)
    \/ QueueSend(1, OutMsgs)
    \/ CloseDirect(1)
    \/ Shutdown

ConnSpec == ConnInit /\ [][ConnNext]_vars

\* one connection whose outbound bytes are recorded: every byte passed to
\* queue_send and every byte the socket accepted
SendInit ==
    /\ pool = "running"
    /\ nconn = 1
    /\ pending = 0
    /\ shutdown_log = <<>>
    /\ last = Op("accept", Listener, {"accepted"})
    /\ \E s \in PoolScripts :
          Holds([handle_conn(Started, 1, 1, s).W EXCEPT !.net[1].track = TRUE])

SendNext ==
    \/ ConnEvent(1, AnyBytes(1))
    \/ StaleEvent(1)
    \/ QueueSend(1, SendMsgs)
    \/ CloseDirect(1)
    \/ Shutdown

SendSpec == SendInit /\ [][SendNext]_vars

\* the connection of SendSpec while it stays open on a transport that takes
\* bytes; the Registrar is level-triggered, so a handle registered for WRITE
\* on a writable socket keeps being dispatched
DrainNext ==
    \/ DrainEvent(1)
    \/ QueueSend(1, SendMsgs)

DrainSpec == SendInit /\ [][DrainNext]_vars /\ WF_vars(WriteReady(1))

TypeOK ==
    /\ pool \in {"new", "running", "down"}
    /\ lang_servs \subseteq ConnIds
    /\ nconn \in 0..MaxConns
    /\ DOMAIN registry \subseteq Handles

\* ----------------------------------------------------------------- claims
Failed(op) == op.res \cap Raising # {}
OneFrame(s) == Len(Scripts[s]) = 1 /\ ValidFrame(Scripts[s][1])
AllReceived(c) == net[c].rpos = Len(Wire(net[c].script))
SameFrame(e, f) == e.body = Meaning(f).body /\ e.headers = Meaning(f).headers

\* C1: a valid frame whose bytes reach LangServ.event in any number of chunks,
\* cut at any positions, is emitted exactly once, with the original body and
\* headers, and not before its last byte arrived
FrameReconstruction ==
    \A c \in Created :
        OneFrame(net[c].script) =>
            IF AllReceived(c)
            THEN /\ Len(emitted[c]) = 1
                 /\ SameFrame(emitted[c][1], Scripts[net[c].script][1])
            ELSE emitted[c] = <<>>

\* C1 witness: a frame received in chunks cut inside the header name, inside
\* the terminator and inside the body, and emitted
FrameReconstructionWitness ==
    /\ OneFrame(net[1].script)
    /\ AllReceived(1)
    /\ net[1].cuts = {"name", "terminator", "body"}
    /\ Len(emitted[1]) = 1

\* C2: the frames of a connection are emitted in the order of their bytes, and
\* N valid frames received by a single feed are all emitted by that feed
MultiFrameBatching ==
    \A c \in Created :
        LET fs == Scripts[net[c].script]
        IN ValidScript(net[c].script) =>
            /\ Len(emitted[c]) <= Len(fs)
            /\ \A i \in 1..Len(emitted[c]) : SameFrame(emitted[c][i], fs[i])
            /\ (net[c].feeds = 1 /\ AllReceived(c)) => Len(emitted[c]) = Len(fs)

\* C2 witness: two frames fed in one call, both emitted
MultiFrameBatchingWitness ==
    /\ Len(Scripts[net[1].script]) = 2
    /\ ValidScript(net[1].script)
    /\ net[1].feeds = 1
    /\ AllReceived(1)
    /\ Len(emitted[1]) = 2

\* C3: after an event whose header block had no numeric Content-Length, no
\* frame was emitted, the connection is closed and unregistered, the listener
\* is still registered and no error left the pool's dispatch
FramingFailureClosesConnection ==
    (last.op = "event" /\ "framing" \in last.res) =>
        /\ emitted[last.h] = <<>>
        /\ ls[last.h].closed
        /\ last.h \notin DOMAIN registry
        /\ Listener \in DOMAIN registry
        /\ ~Failed(last)

\* C4: once close() was called on a connection, however often and from
\* wherever, unregister and the socket's close were each invoked exactly once
CloseExactlyOnce ==
    \A c \in ConnIds :
        IF calls[c].close >= 1
        THEN calls[c].unregister = 1 /\ calls[c].sockclose = 1 /\ ls[c].closed
        ELSE calls[c].unregister = 0 /\ calls[c].sockclose = 0 /\ ~ls[c].closed

\* C4 witness: a connection closed directly and closed again by shutdown()
CloseExactlyOnceWitness ==
    /\ pool = "down"
    /\ \E c \in lang_servs : calls[c].close = 2 /\ calls[c].direct = 1

\* C5: the mask registered for an open connection has READ, and has WRITE
\* exactly when the outbound buffer is not empty
InterestMask ==
    \A c \in Created :
        ~ls[c].closed =>
            /\ c \in DOMAIN registry
            /\ "R" \in registry[c]
            /\ ("W" \in registry[c]) <=> (ls[c].send_buf # <<>>)

\* C5 witness: after a partial send, bytes remain and WRITE is still requested
InterestMaskWitness ==
    /\ last.op = "event"
    /\ "sent" \in last.res
    /\ ls[last.h].send_buf # <<>>
    /\ registry[last.h] = EVENT_READ \cup EVENT_WRITE

\* C6 as stated: after any pool operations, shutdown() included, every key
\* of the mapping is registered and every removed connection is closed
MappingRegisteredAlways ==
    /\ \A c \in lang_servs : calls[c].direct = 0 => c \in DOMAIN registry
    /\ \A c \in Created \ lang_servs : ls[c].closed

\* C6 amended: until shutdown() every key of the mapping is registered, at
\* all times every removed connection is closed, and after shutdown() the
\* keys stay in the mapping, closed and unregistered
MappingRegisteredWhileRunning ==
    /\ pool # "down" => \A c \in lang_servs : calls[c].direct = 0 => c \in DOMAIN registry
    /\ \A c \in Created \ lang_servs : ls[c].closed
    /\ pool = "down" => \A c \in lang_servs : ls[c].closed /\ c \notin DOMAIN registry

\* C6 witness: a running pool with one connection in the mapping, registered,
\* and one removed from it, closed
MappingRegisteredWitness ==
    /\ pool = "running"
    /\ \E c \in lang_servs : c \in DOMAIN registry /\ calls[c].direct = 0
    /\ \E c \in Created \ lang_servs : ls[c].closed

\* position of a call in the log of shutdown(), 0 when absent
LogIndex(call) ==
    IF \E i \in 1..Len(shutdown_log) : shutdown_log[i] = call
    THEN CHOOSE i \in 1..Len(shutdown_log) : shutdown_log[i] = call
    ELSE 0

\* C7 as stated: shutdown() closes the connections first and releases the
\* listener afterwards
ShutdownConnectionsFirst ==
    pool = "down" =>
        /\ \A c \in Created : ls[c].closed
        /\ Listener \notin DOMAIN registry
        /\ \A c \in ConnIds :
              LogIndex(<<"unregister", c>>) < LogIndex(<<"unregister", Listener>>)

\* C7 amended: shutdown() unregisters and closes the listener first and closes
\* the connections of the mapping afterwards; when it has returned every
\* connection is closed and unregistered and the listener is unregistered
ShutdownListenerFirst ==
    pool = "down" =>
        /\ \A c \in Created : ls[c].closed /\ c \notin DOMAIN registry
        /\ Listener \notin DOMAIN registry
        /\ calls[Listener].unregister = 1 /\ calls[Listener].sockclose = 1
        /\ Len(shutdown_log) >= 2
        /\ shutdown_log[1] = <<"unregister", Listener>>
        /\ shutdown_log[2] = <<"close", Listener>>
        /\ \A c \in ConnIds : LogIndex(<<"unregister", c>>) # 1

\* C7 witness: shutdown() has closed an open connection
ShutdownListenerFirstWitness ==
    /\ pool = "down"
    /\ \E c \in lang_servs : LogIndex(<<"unregister", c>>) > 2

\* C8: a listener event with a pending peer adds one connection, registered
\* for READ only; without a pending peer it changes nothing and raises nothing
AcceptOneOrNothing ==
    [][last'.op = "accept" =>
        IF pending > 0
        THEN /\ pending' = pending - 1
             /\ lang_servs' = lang_servs \cup {nconn'}
             /\ nconn' \notin lang_servs
             /\ registry' = ctx_register(registry, nconn', EVENT_READ)
             /\ ~ls'[nconn'].closed
             /\ ~Failed(last')
        ELSE /\ lang_servs' = lang_servs
             /\ registry' = registry
             /\ ~Failed(last')]_vars

\* C9: a dispatch whose recv or send returned zero leaves the connection
\* closed, unregistered and out of the mapping, and raises nothing
TransportClosureReaped ==
    (last.op = "event" /\ last.res \cap {"eof", "send0"} # {}) =>
        /\ ls[last.h].closed
        /\ last.h \notin DOMAIN registry
        /\ last.h \notin lang_servs
        /\ ~Failed(last)

\* C9 witness: a send returned zero for a connection with bytes to send
TransportClosureReapedWitness ==
    /\ last.op = "event"
    /\ "send0" \in last.res
    /\ ls[last.h].send_buf # <<>>
    /\ last.h \notin lang_servs

\* the Registrar's view of handle h
Registered(reg, h) == IF h \in DOMAIN reg THEN reg[h] ELSE {"unregistered"}

\* C10: a dispatch that fails on one connection (transport closure, framing
\* violation, handler failure) changes nothing of any other connection and
\* leaves the listener registered for READ
FailureIsolated ==
    [][(last'.op = "event"
        /\ last'.res \cap {"eof", "send0", "framing", "decode"} # {}) =>
        /\ \A d \in ConnIds \ {last'.h} :
              /\ ls'[d] = ls[d]
              /\ Registered(registry', d) = Registered(registry, d)
        /\ Registered(registry', Listener) = EVENT_READ]_vars

\* C10 witness: one connection was closed by its peer while another one is
\* open with bytes to send and a partly received frame
FailureIsolatedWitness ==
    /\ last.op = "event"
    /\ "eof" \in last.res
    /\ \E d \in lang_servs \ {last.h} :
          /\ ~ls[d].closed
          /\ ls[d].send_buf # <<>>
          /\ ls[d].parser.acc # <<>>
          /\ registry[d] = EVENT_READ \cup EVENT_WRITE

\* the position on the wire at which the i-th frame of fs ends
FrameEnd(fs, i) == Len(EncodeAll(Take(fs, i)))

WouldBlockKeepsState ==
    (last'.op = "event" /\ "BlockingIOError" \in last'.res) =>
        /\ ~ls'[last'.h].closed
        /\ ls'[last'.h].send_buf = ls[last'.h].send_buf
        /\ registry' = registry
        /\ lang_servs' = lang_servs
        /\ (last'.io = <<"recv">> => ls' = ls /\ emitted' = emitted)

\* C12: an event whose recv or send would block is a tick with nothing to
\* do: no error leaves event(), the connection stays open, and the outbound
\* buffer, the parser state and the registered mask are as before
WouldBlockIsNoop ==
    [][WouldBlockKeepsState /\
       ((last'.op = "event" /\ "BlockingIOError" \in last'.res) => ~Failed(last'))]_vars

\* a dispatch for a connection that is closed and unregistered made no
\* further unregister and no further socket close
StaleDispatchClosesNothing ==
    last.op = "stale" =>
        /\ ls[last.h].closed
        /\ calls[last.h].unregister = 1
        /\ calls[last.h].sockclose = 1

\* C13: a pool event for a handle whose connection is already closed, removed
\* from the mapping or closed by shutdown(), is handled without error and
\* causes no second unregister and no second socket close
StaleDispatchHarmless ==
    StaleDispatchClosesNothing /\ (last.op = "stale" => ~Failed(last))

\* the raw bytes of the frames out, in order
RECURSIVE ContentOf(_)
ContentOf(out) == IF out = <<>> THEN <<>> ELSE Head(out).content \o ContentOf(Tail(out))

\* C14: a feed that does not complete the current need emits nothing and
\* loses nothing: the frames emitted, the header block kept and the
\* accumulator are the bytes received so far; a frame is emitted exactly when
\* its last byte has arrived, with the body and headers sent; and a feed of
\* zero bytes emits nothing and leaves the parser as it was
PartialFeedKeepsBytes ==
    \A c \in Created :
        ValidScript(net[c].script) =>
            /\ ContentOf(emitted[c]) \o ls[c].parser.head \o ls[c].parser.acc
                  = Take(Wire(net[c].script), net[c].rpos)
            /\ Feed(ls[c].parser, <<>>) = [p |-> ls[c].parser, out |-> <<>>, failed |-> FALSE]
            /\ \A i \in 1..Len(Scripts[net[c].script]) :
                  (FrameEnd(Scripts[net[c].script], i) <= net[c].rpos) <=> (Len(emitted[c]) >= i)
            /\ \A i \in 1..Len(emitted[c]) :
                  SameFrame(emitted[c][i], Scripts[net[c].script][i])

\* C14 witness: two frames, received in several chunks that ended inside a
\* header name and inside a terminator, all emitted once the remaining bytes
\* were fed
PartialFeedKeepsBytesWitness ==
    /\ Len(Scripts[net[1].script]) = 2
    /\ net[1].feeds = 2
    /\ {"name", "terminator"} \subseteq net[1].cuts
    /\ AllReceived(1)
    /\ Len(emitted[1]) = 2

\* C15: a frame that declares Content-Length 0 is emitted, with an empty
\* body, by the feed that brings the last byte of its header terminator
ZeroLengthBody ==
    \A c \in Created :
        ValidScript(net[c].script) =>
            \A i \in 1..Len(Scripts[net[c].script]) :
                (/\ Scripts[net[c].script][i].body = <<>>
                 /\ FrameEnd(Scripts[net[c].script], i) <= net[c].rpos) =>
                    /\ Len(emitted[c]) >= i
                    /\ emitted[c][i].body = <<>>
                    /\ emitted[c][i].headers[ContentLength] = <<"0">>

\* C15 witness: a Content-Length 0 frame at the end of bytes that came in
\* several chunks, one of them cut inside a terminator; the feed that brought
\* the last byte emitted it and left the parser idle
ZeroLengthBodyWitness ==
    /\ last.op = "event"
    /\ "data" \in last.res
    /\ AllReceived(last.h)
    /\ net[last.h].feeds = 2
    /\ "terminator" \in net[last.h].cuts
    /\ Len(emitted[last.h]) = 2
    /\ emitted[last.h][2].body = <<>>
    /\ ls[last.h].parser = NewParser

\* the operations of the pool on handles the Registrar has registered
PoolOps == {"accept", "event", "shutdown"}

\* C16: closed is terminal: the closed flag of a connection is never cleared,
\* and no pool event for a registered handle and no shutdown() calls recv,
\* send, register or modify on the socket of a closed connection
ClosedIsTerminal ==
    [][\A c \in ConnIds :
          ls[c].closed =>
              /\ ls'[c].closed
              /\ last'.op \in PoolOps =>
                    /\ calls'[c].late = calls[c].late
                    /\ net'[c].rpos = net[c].rpos
                    /\ ls'[c].send_buf = ls[c].send_buf
                    /\ c \notin DOMAIN registry']_vars

\* C16 witness: a pool event for one connection while another one, closed
\* before, is still in the mapping and was left alone
ClosedIsTerminalWitness ==
    /\ last.op = "event"
    /\ \E c \in lang_servs :
          /\ c # last.h
          /\ ls[c].closed
          /\ calls[c].late = 0
          /\ calls[c].unregister = 1

\* C17: in one event with READ and WRITE the recv comes first and every send
\* after it; when the recv returns zero bytes the connection is closed and
\* the event makes no send and no modify and leaves the outbound buffer alone
ReadBeforeWrite ==
    [][(last'.op = "event" /\ last'.mask = EVENT_READ \cup EVENT_WRITE) =>
          /\ last'.io # <<>>
          /\ Head(last'.io) = "recv"
          /\ \A i, j \in 1..Len(last'.io) :
                (last'.io[i] = "recv" /\ last'.io[j] = "send") => i < j
          /\ "eof" \in last'.res =>
                /\ ls'[last'.h].closed
                /\ last'.h \notin DOMAIN registry'
                /\ \A i \in 1..Len(last'.io) : last'.io[i] \notin {"send", "modify"}
                /\ ls'[last'.h].send_buf = ls[last'.h].send_buf]_vars

\* C17 witness: an event with READ and WRITE on a connection with bytes to
\* send whose recv returned zero bytes
ReadBeforeWriteWitness ==
    /\ last.op = "event"
    /\ last.mask = EVENT_READ \cup EVENT_WRITE
    /\ last.res = {"eof"}
    /\ last.io = <<"recv", "close">>
    /\ ls[last.h].send_buf # <<>>
    /\ ls[last.h].closed

\* C18: for every open connection, the bytes its socket accepted so far
\* followed by its outbound buffer are the arguments of all queue_send calls
\* so far, concatenated in call order
OutboundConservation ==
    \A c \in Created :
        (net[c].track /\ ~ls[c].closed) =>
            net[c].sent \o ls[c].send_buf = net[c].queued

\* C18 witness: a message queued, sent in part, and a second message queued
\* behind the rest of the first
OutboundConservationWitness ==
    /\ ~ls[1].closed
    /\ net[1].queued = <<"a", "b", "c">>
    /\ net[1].sent = <<"a">>
    /\ ls[1].send_buf = <<"b", "c">>

\* C19: on a connection that stays open, with write-ready events delivered
\* fairly and every send accepting at least one byte, a non-empty outbound
\* buffer leads, once the queue_send calls have ended, to an empty buffer and
\* a registered mask without WRITE; and no event calls send on an empty buffer
EventuallyDrained ==
    /\ (ls[1].send_buf # <<>>) ~> (ls[1].send_buf = <<>> /\ registry[1] = EVENT_READ)
    /\ <>[](ls[1].send_buf = <<>> /\ registry[1] = EVENT_READ)
    /\ [][\A i \in 1..Len(last'.io) :
             last'.io[i] = "send" => ls[last'.h].send_buf # <<>>]_vars

\* C19 witness: all bytes that may be queued were queued, the socket
\* accepted them in several sends, the buffer is empty and WRITE was dropped
EventuallyDrainedWitness ==
    /\ last.op = "event"
    /\ "sent" \in last.res
    /\ Len(net[1].queued) = MaxQueued
    /\ net[1].sent = net[1].queued
    /\ ls[1].send_buf = <<>>
    /\ registry[1] = EVENT_READ

====
